---- MODULE Spec2Model ----
(***************************************************************************)
(* Model of the resilient cached invocation layer of the travel assistant: *)
(*   src/utils/cache_manager.py  CacheManager (fingerprint, two stores)     *)
(*   src/utils/api_utils.py      count_tokens, optimize_prompt,             *)
(*                               call_openai_api                            *)
(*   src/models/__init__.py      get_db_connection, api_cache table         *)
(*                                                                         *)
(* Time is counted in whole seconds.  A text is abstracted to its sequence  *)
(* of whitespace-separated words: [n |-> number of words taken from the     *)
(* original prompt, note |-> whether the truncation notice was appended].   *)
(* Python values that are cached are tagged records [tag, items].           *)
(* hashlib.md5 is modelled as an injective map on the query string: the     *)
(* key IS the query string (md5 collisions are outside the model).          *)
(* The model covers the process in which the openai module is installed     *)
(* (openai_available = True) and token counting uses the word-count         *)
(* approximation (the path of count_tokens that is always available).       *)
(* Specifications, all over the same variables:                             *)
(*   SpecCache    the cache manager called directly                         *)
(*   SpecFiles    the same with clear_expired_cache and damaged files       *)
(*   SpecKey      the fingerprint of nested mappings and request classes    *)
(*   SpecThreads  three threads interleaving between their sql statements   *)
(*   SpecInvoke   one caller of call_openai_api                             *)
(*   SpecRepeat   two callers of call_openai_api, one after the other       *)
(*   SpecObserve  one caller that passes a progress_callback                *)
(*   SpecBudget   one caller with prompts around the token ceiling          *)
(***************************************************************************)
EXTENDS Integers, Sequences, FiniteSets, TLC

VARIABLES
    now,      \* wall clock, seconds (datetime.now())
    db,       \* table api_cache: query_hash -> row
    files,    \* cache directory: query_hash -> content of <query_hash>.json
    hist,     \* the last two cache-manager calls, newest last
    ops,      \* number of direct cache-manager calls made so far
    inv,      \* the call_openai_api invocations, one record per caller
    ticks,    \* number of clock advances made by the environment
    calls     \* the cache-manager calls in progress, one record per thread

vars == <<now, db, files, hist, ops, inv, ticks, calls>>

----------------------------------------------------------------------------
(* Bounds of the model *)

MaxTicks == 1      \* clock advances by the environment
MaxOps == 3        \* direct calls of the cache manager by a caller

(* Program constants *)

HourSecs == 3600          \* timedelta(hours=1)
DefaultExpireHours == 24  \* cache_response(..., expire_hours=24)
TokenCeiling == 4000      \* if total_tokens > 4000 / optimize_prompt(prompt, 4000 - ...)
TokensPerWordX10 == 13    \* len(text.split()) * 1.3, in tenths of a token
NoteRoom == 20            \* int(len(words) * ratio) - 20
NoteWords == 11           \* words of the appended truncation notice
max_retries == 3
InitialRetryDelay == 1    \* retry_delay = 1

----------------------------------------------------------------------------
(* Python values and json.dumps / json.loads *)

PNone == [tag |-> "none", items |-> <<>>]
PStr(s) == [tag |-> "str", items |-> <<s>>]
PList(xs) == [tag |-> "list", items |-> xs]
PTuple(xs) == [tag |-> "tuple", items |-> xs]
PDict(kv) == [tag |-> "dict", items |-> kv]             \* str keys
PDictIntKeys(kv) == [tag |-> "dict_intkeys", items |-> kv] \* int keys

\* json.dumps: None -> null, str -> string, list and tuple -> array,
\* dict -> object whose keys are all strings (int keys are written as strings).
json_dumps(v) ==
    CASE v.tag = "none" -> [j |-> "null", items |-> <<>>]
      [] v.tag = "str" -> [j |-> "string", items |-> v.items]
      [] v.tag \in {"list", "tuple"} -> [j |-> "array", items |-> v.items]
      [] v.tag \in {"dict", "dict_intkeys"} -> [j |-> "object", items |-> v.items]

\* json.loads: null -> None, string -> str, array -> list, object -> dict.
json_loads(d) ==
    CASE d.j = "null" -> PNone
      [] d.j = "string" -> [tag |-> "str", items |-> d.items]
      [] d.j = "array" -> [tag |-> "list", items |-> d.items]
      [] d.j = "object" -> [tag |-> "dict", items |-> d.items]

\* Python truthiness of a value (if cached_response:).
Truthy(v) ==
    CASE v.tag = "none" -> FALSE
      [] v.tag = "str" -> v.items[1] # ""
      [] OTHER -> Len(v.items) > 0

----------------------------------------------------------------------------
(* Timestamps: datetime.isoformat() and the string comparison of two of them.
   An ISO-8601 string is compared field by field, most significant first. *)

DaySecs == 24 * HourSecs

isoformat(t) == <<t \div DaySecs, (t % DaySecs) \div HourSecs, t % HourSecs>>

\* inverse of isoformat, used only to state properties
IsoTime(s) == s[1] * DaySecs + s[2] * HourSecs + s[3]

\* a > b on ISO strings
StrGreater(a, b) ==
    \/ a[1] > b[1]
    \/ a[1] = b[1] /\ a[2] > b[2]
    \/ a[1] = b[1] /\ a[2] = b[2] /\ a[3] > b[3]

----------------------------------------------------------------------------
(* CacheManager._generate_key *)

\* A query is [isdict, items]: a dict is the sequence of its items in
\* insertion order, an item being <<key, value>> with the value written as its
\* JSON literal, or <<key, "", items>> when the value is itself a dict;
\* anything else than a dict is one pair <<"", str(query_data)>>.
\* The key names the callers use, in the order sort_keys=True puts them.
KeyOrder == <<"", "geocode", "lat", "lng", "location", "max_tokens", "model",
              "nearby", "prompt", "radius", "system_prompt", "temperature",
              "type">>

KeyRank(k) == CHOOSE i \in DOMAIN KeyOrder : KeyOrder[i] = k

RECURSIVE SortedPairs(_)
SortedPairs(pairs) ==
    IF pairs = {} THEN <<>>
    ELSE LET m == CHOOSE p \in pairs :
                      \A q \in pairs : KeyRank(p[1]) <= KeyRank(q[1])
         IN <<m>> \o SortedPairs(pairs \ {m})

Range(s) == {s[i] : i \in DOMAIN s}

\* (mutation of SortKeys: sort_keys=False, the items stay in insertion order)
InsertionOrder(items) == items

\* sort_keys=True: the items of every dict, at any depth, sorted by key
SortKeys(items) == SortedPairs(Range(items))

RECURSIVE JoinPairs(_)
JoinPairs(ps) ==
    IF ps = <<>> THEN ""
    ELSE "\"" \o ps[1][1] \o "\": "
         \o (IF Len(ps[1]) = 3
             THEN "{" \o JoinPairs(SortKeys(ps[1][3])) \o "}"
             ELSE ps[1][2])
         \o (IF Len(ps) > 1 THEN ", " ELSE "") \o JoinPairs(Tail(ps))

\* json.dumps(query_data, sort_keys=True) for a dict, str(query_data) otherwise
QueryString(q) ==
    IF q.isdict THEN "{" \o JoinPairs(SortKeys(q.items)) \o "}"
    ELSE q.items[1][2]

\* (mutation of generate_key: the api_type is left out of the hashed string)
generate_key_without_class(query_data, api_type) == QueryString(query_data)

generate_key(query_data, api_type) == api_type \o ":" \o QueryString(query_data)

----------------------------------------------------------------------------
(* The two stores *)

\* expires_at > datetime.now().isoformat()
Unexpired(expires_at, t) == StrGreater(expires_at, isoformat(t))

\* SELECT response_data, expires_at FROM api_cache
\*   WHERE query_hash = ? AND expires_at > ?      (fetchone: <<row>> or <<>>)
DbSelect(k, t) ==
    IF k \in DOMAIN db /\ Unexpired(db[k].expires_at, t) THEN <<db[k]>> ELSE <<>>

\* (mutation of DbUpsert: ON CONFLICT DO NOTHING, the old row is kept)
DbUpsertKeepOld(k, response_data, api_type, expires_at) ==
    [h \in DOMAIN db \cup {k} |->
        IF h = k /\ k \notin DOMAIN db
        THEN [response_data |-> response_data, api_type |-> api_type,
              expires_at |-> expires_at]
        ELSE db[h]]

\* (mutation of DbUpsert: on conflict only response_data is updated)
DbUpsertKeepExpiry(k, response_data, api_type, expires_at) ==
    [h \in DOMAIN db \cup {k} |->
        IF h = k
        THEN [response_data |-> response_data,
              api_type |-> IF k \in DOMAIN db THEN db[k].api_type ELSE api_type,
              expires_at |-> IF k \in DOMAIN db THEN db[k].expires_at ELSE expires_at]
        ELSE db[h]]

\* INSERT ... ON CONFLICT(query_hash) DO UPDATE SET response_data, expires_at:
\* a conflicting row keeps its api_type.
DbUpsert(k, response_data, api_type, expires_at) ==
    [h \in DOMAIN db \cup {k} |->
        IF h = k
        THEN [response_data |-> response_data,
              api_type |-> IF k \in DOMAIN db THEN db[k].api_type ELSE api_type,
              expires_at |-> expires_at]
        ELSE db[h]]

\* _save_to_file_cache: json.dump({'response': ..., 'expires_at': ...}) into
\* <query_hash>.json; a failure to write is printed and swallowed.
save_to_file_cache(query_hash, response_data, expires_at, fsOK) ==
    IF fsOK
    THEN [h \in DOMAIN files \cup {query_hash} |->
            IF h = query_hash
            THEN [kind |-> "entry", response |-> json_dumps(response_data),
                  expires_at |-> expires_at]
            ELSE files[h]]
    ELSE files

NoIso == <<0, 0, 0>>

\* the record of no call
NoGet == [op |-> "none", key |-> "", val |-> PNone, ttl |-> 0, at |-> 0,
          mode |-> "ok", fs |-> TRUE, out |-> "return", ret |-> PNone,
          src |-> "none", exp |-> NoIso]


\* What a file of the cache directory can hold: kind "entry" is what
\* _save_to_file_cache writes, {"response": ..., "expires_at": ...}; the other
\* kinds are files that something else left there:
\*   "garbage"    text that is not JSON (json.load raises JSONDecodeError)
\*   "nonobject"  JSON that is not an object (it has no .get: AttributeError)
\*   "noexpiry"   a JSON object without the key expires_at
CorruptKinds == {"garbage", "nonobject", "noexpiry"}

CorruptFile(kind) ==
    [kind |-> kind, response |-> json_dumps(PNone), expires_at |-> NoIso]

\* (mutation of FileLookup: the file store is never read)
FileLookupSkipped(k, t) == [out |-> "return", ret |-> PNone, src |-> "none", exp |-> NoIso]

\* The file branch of get_cached_response (lines 47-59).  The bare except
\* swallows what json.load and cache_data.get raise; an object without
\* expires_at has '' > now false.
FileLookup(k, t) ==
    IF /\ k \in DOMAIN files
       /\ files[k].kind = "entry"
       /\ Unexpired(files[k].expires_at, t)
    THEN [out |-> "return", ret |-> json_loads(files[k].response), src |-> "file",
          exp |-> files[k].expires_at]
    ELSE [out |-> "return", ret |-> PNone, src |-> "none", exp |-> NoIso]

\* get_cached_response, after the key is computed: what the call does at time
\* t.  get_db_connection() is called outside the try, and the try has a
\* finally but no except: an error of the database leaves the call as an
\* exception.
GetCached(k, t, dbMode) ==
    IF dbMode # "ok"
    THEN [out |-> "raise", ret |-> PNone, src |-> "none", exp |-> NoIso]
    ELSE IF DbSelect(k, t) # <<>>
         THEN [out |-> "return", ret |-> json_loads(DbSelect(k, t)[1].response_data),
               src |-> "db", exp |-> DbSelect(k, t)[1].expires_at]
         ELSE FileLookup(k, t)

\* expires_at = (datetime.now() + timedelta(hours=expire_hours)).isoformat()
ExpiresAt(t, expire_hours) == isoformat(t + expire_hours * HourSecs)

\* (mutation of CacheWrite: the file store mirrors every write)
CacheWriteMirrored(k, response_data, api_type, expire_hours, t, dbMode, fsOK) ==
    LET expires_at == isoformat(t + expire_hours * HourSecs) IN
    IF dbMode = "connect_fail"
    THEN [out |-> "raise", db |-> db, files |-> files, exp |-> expires_at]
    ELSE [out |-> "return",
          db |-> IF dbMode = "ok"
                 THEN DbUpsert(k, json_dumps(response_data), api_type, expires_at)
                 ELSE db,
          files |-> save_to_file_cache(k, response_data, expires_at, fsOK),
          exp |-> expires_at]

\* (mutation of CacheWrite: the row is stored although the call raises)
CacheWriteThenRaise(k, response_data, api_type, expire_hours, t, dbMode, fsOK) ==
    LET expires_at == ExpiresAt(t, expire_hours) IN
    IF dbMode = "connect_fail"
    THEN [out |-> "raise",
          db |-> DbUpsert(k, json_dumps(response_data), api_type, expires_at),
          files |-> files, exp |-> expires_at]
    ELSE IF dbMode = "exec_fail"
         THEN [out |-> "return", db |-> db,
               files |-> save_to_file_cache(k, response_data, expires_at, fsOK),
               exp |-> expires_at]
         ELSE [out |-> "return",
               db |-> DbUpsert(k, json_dumps(response_data), api_type, expires_at),
               files |-> files, exp |-> expires_at]

\* cache_response, after the key is computed: the outcome and the two stores
\* after it.  get_db_connection() is outside the try; only sqlite3.Error of
\* the INSERT or the commit is caught, and then the file store is written.
CacheWrite(k, response_data, api_type, expire_hours, t, dbMode, fsOK) ==
    LET expires_at == ExpiresAt(t, expire_hours) IN
    IF dbMode = "connect_fail"
    THEN [out |-> "raise", db |-> db, files |-> files, exp |-> expires_at]
    ELSE IF dbMode = "exec_fail"
         THEN [out |-> "return", db |-> db,
               files |-> save_to_file_cache(k, response_data, expires_at, fsOK),
               exp |-> expires_at]
         ELSE [out |-> "return",
               db |-> DbUpsert(k, json_dumps(response_data), api_type, expires_at),
               files |-> files, exp |-> expires_at]

\* a function restricted to the keys in S
Restrict(f, S) == IF S = {} THEN <<>> ELSE [k \in S |-> f[k]]

\* (mutation of Expired: the comparison is turned around, live entries go)
ExpiredReversed(expires_at, t) == StrGreater(expires_at, isoformat(t))

\* expires_at < now on ISO strings (lines 113 and 124)
Expired(expires_at, t) == StrGreater(isoformat(t), expires_at)

\* the loop body of clear_expired_cache unlinks this file: it is not JSON
\* (JSONDecodeError is caught and the file removed), or .get('expires_at', '')
\* is smaller than now ('' is smaller than any timestamp)
Unlinked(k, t) ==
    \/ files[k].kind \in {"garbage", "noexpiry"}
    \/ files[k].kind = "entry" /\ Expired(files[k].expires_at, t)

\* the files on which the loop body raises: cache_data.get on JSON that is
\* not an object is an AttributeError, which the except clause does not name
Unsweepable == {k \in DOMAIN files : files[k].kind = "nonobject"}

\* clear_expired_cache at time t.  The connection is opened outside the try
\* and the try has no except: a failing database ends the call before the
\* files are looked at.  glob yields the files in no particular order; before
\* is the set of files it yields ahead of the first one that makes the loop
\* raise.
ClearExpired(t, dbMode, before) ==
    IF dbMode # "ok"
    THEN [out |-> "raise", db |-> db, files |-> files]
    ELSE LET visited == IF Unsweepable = {} THEN DOMAIN files ELSE before
             kept == {k \in DOMAIN files : ~(k \in visited /\ Unlinked(k, t))}
         IN [out |-> IF Unsweepable = {} THEN "return" ELSE "raise",
             db |-> Restrict(db, {k \in DOMAIN db : ~Expired(db[k].expires_at, t)}),
             files |-> Restrict(files, kept)]

\* The record of one cache-manager call, kept in hist (a direct call is
\* logged with its arguments q and cls as well).
GetRecord(k, t, dbMode) ==
    LET g == GetCached(k, t, dbMode) IN
    [op |-> "get", key |-> k, val |-> PNone, ttl |-> 0, at |-> t, mode |-> dbMode,
     fs |-> TRUE, out |-> g.out, ret |-> g.ret, src |-> g.src, exp |-> g.exp]

PutRecord(k, v, a, ttl, t, dbMode, fsOK) ==
    LET w == CacheWrite(k, v, a, ttl, t, dbMode, fsOK) IN
    [op |-> "put", key |-> k, val |-> v, ttl |-> ttl, at |-> t, mode |-> dbMode,
     fs |-> fsOK, out |-> w.out, ret |-> PNone,
     src |-> IF w.files # files THEN "file" ELSE IF w.db # db THEN "db" ELSE "none",
     exp |-> w.exp]

Push(h, r) == IF Len(h) < 2 THEN Append(h, r) ELSE <<h[2], r>>

----------------------------------------------------------------------------
(* Inputs of the direct calls *)

Queries == { [isdict |-> TRUE, items |-> << <<"geocode", "\"paris\"">> >>] }
ApiTypes == {"geocode"}
Payloads == { PStr("ok"), PTuple(<<"a">>) }
TTLs == {0, DefaultExpireHours}
TickSteps == {1, DaySecs}

\* What an operation finds the sqlite database to be: healthy, unreachable
\* (sqlite3.connect raises) or unusable (a statement or the commit raises
\* sqlite3.Error).
DbModes == {"ok", "connect_fail", "exec_fail"}

----------------------------------------------------------------------------
(* Actions: the cache manager called directly *)

\* cache_manager.get_cached_response(q, a), meeting the database in dbMode
get_cached_response(q, a, dbMode) ==
    /\ ops < MaxOps
    /\ ops' = ops + 1
    /\ hist' = Push(hist, GetRecord(generate_key(q, a), now, dbMode)
                              @@ [q |-> q, cls |-> a])
    /\ UNCHANGED <<now, db, files, inv, ticks, calls>>

\* cache_manager.cache_response(q, v, a, expire_hours=ttl), meeting the
\* database in dbMode and the cache directory writable or not
cache_response(q, v, a, ttl, dbMode, fsOK) ==
    LET k == generate_key(q, a)
        w == CacheWrite(k, v, a, ttl, now, dbMode, fsOK)
    IN /\ ops < MaxOps
       /\ ops' = ops + 1
       /\ dbMode = "exec_fail" \/ fsOK   \* the directory matters to the file branch only
       /\ db' = w.db
       /\ files' = w.files
       /\ hist' = Push(hist, PutRecord(k, v, a, ttl, now, dbMode, fsOK)
                                 @@ [q |-> q, cls |-> a])
       /\ UNCHANGED <<now, inv, ticks, calls>>

\* cache_manager.clear_expired_cache()
clear_expired_cache(dbMode, before) ==
    LET c == ClearExpired(now, dbMode, before)
    IN /\ ops < MaxOps
       /\ ops' = ops + 1
       /\ before \subseteq DOMAIN files \ Unsweepable
       /\ (Unsweepable = {} \/ dbMode # "ok") => before = {}
       /\ db' = c.db
       /\ files' = c.files
       /\ hist' = Push(hist, [NoGet EXCEPT !.op = "clear", !.at = now,
                                           !.mode = dbMode, !.out = c.out])
       /\ UNCHANGED <<now, inv, ticks, calls>>

(* Actions: the environment *)

\* something other than the cache manager leaves a file <query_hash>.json
\* in the cache directory that _save_to_file_cache would not have written
Corrupt(q, a, kind) ==
    LET k == generate_key(q, a)
    IN /\ ops < MaxOps
       /\ ops' = ops + 1
       /\ files' = [h \in DOMAIN files \cup {k} |->
                      IF h = k THEN CorruptFile(kind) ELSE files[h]]
       /\ hist' = Push(hist, [NoGet EXCEPT !.op = "corrupt", !.key = k, !.at = now])
       /\ UNCHANGED <<now, db, inv, ticks, calls>>

\* time passes
Tick(d) ==
    /\ ticks < MaxTicks
    /\ ticks' = ticks + 1
    /\ now' = now + d
    /\ UNCHANGED <<db, files, hist, ops, inv, calls>>

----------------------------------------------------------------------------
(* The cache manager called from several threads at once.  Every call opens
   its own connection; sqlite runs each statement, and the INSERT with its
   commit, as one atomic step on the table, so the threads interleave between
   the statements.  query_hash is UNIQUE (models/__init__.py:59). *)

Threads == {1, 2, 3}

\* a thread that has made no call
IdleCall ==
    [pc |-> "idle", op |-> "none", key |-> "", cls |-> "", val |-> PNone,
     exp |-> NoIso, at |-> 0, out |-> "none", ret |-> PNone, src |-> "none",
     conn |-> 0]     \* connections this call has opened and not closed

\* conn = get_db_connection() returned a connection
Opened(c) == [c EXCEPT !.conn = @ + 1]

\* (mutation of Closed: the connection is closed on the return paths only)
ClosedOnReturnOnly(c) == IF c.out = "raise" THEN c ELSE [c EXCEPT !.conn = @ - 1]

\* finally: conn.close(), when the call c leaves its try block
Closed(c) == [c EXCEPT !.conn = @ - 1]

\* cache_response, lines 66-72: the key and expires_at are computed and the
\* connection is opened
PutBegin(t, q, a, v, ttl) ==
    /\ calls[t].pc = "idle"
    /\ calls' = [calls EXCEPT ![t] =
                   Opened([IdleCall EXCEPT !.pc = "insert", !.op = "put",
                                           !.key = generate_key(q, a), !.cls = a,
                                           !.val = v, !.exp = ExpiresAt(now, ttl),
                                           !.at = now])]
    /\ UNCHANGED <<now, db, files, hist, ops, inv, ticks>>

\* cache_response, lines 73-91: INSERT ... ON CONFLICT DO UPDATE and commit
PutCommit(t) ==
    /\ calls[t].pc = "insert"
    /\ db' = DbUpsert(calls[t].key, json_dumps(calls[t].val), calls[t].cls,
                      calls[t].exp)
    /\ calls' = [calls EXCEPT ![t] =
                   Closed([@ EXCEPT !.pc = "done", !.out = "return", !.src = "db"])]
    /\ UNCHANGED <<now, files, hist, ops, inv, ticks>>

\* get_cached_response, lines 32-37: the key is computed, the connection opened
GetBegin(t, q, a) ==
    /\ calls[t].pc = "idle"
    /\ calls' = [calls EXCEPT ![t] =
                   Opened([IdleCall EXCEPT !.pc = "select", !.op = "get",
                                           !.key = generate_key(q, a), !.cls = a])]
    /\ UNCHANGED <<now, db, files, hist, ops, inv, ticks>>

\* get_cached_response, lines 38-45: the SELECT, and the return of a hit
GetSelect(t) ==
    /\ calls[t].pc = "select"
    /\ LET row == DbSelect(calls[t].key, now)
       IN calls' = [calls EXCEPT ![t] =
              IF row # <<>>
              THEN Closed([@ EXCEPT !.pc = "done", !.out = "return", !.src = "db",
                                    !.at = now, !.exp = row[1].expires_at,
                                    !.ret = json_loads(row[1].response_data)])
              ELSE [@ EXCEPT !.pc = "file"]]
    /\ UNCHANGED <<now, db, files, hist, ops, inv, ticks>>

\* get_cached_response, lines 47-62: the file branch after a miss
GetFile(t) ==
    /\ calls[t].pc = "file"
    /\ LET f == FileLookup(calls[t].key, now)
       IN calls' = [calls EXCEPT ![t] =
                      Closed([@ EXCEPT !.pc = "done", !.out = f.out,
                                       !.ret = f.ret, !.src = f.src,
                                       !.at = now, !.exp = f.exp])]
    /\ UNCHANGED <<now, db, files, hist, ops, inv, ticks>>

(* The same calls meeting a database that fails, and the maintenance sweep *)

\* cache_response, line 70: sqlite3.connect raises; no connection exists
PutConnectFails(t, q, a, v, ttl) ==
    /\ calls[t].pc = "idle"
    /\ calls' = [calls EXCEPT ![t] =
                   [IdleCall EXCEPT !.pc = "done", !.op = "put",
                                    !.key = generate_key(q, a), !.cls = a,
                                    !.val = v, !.exp = ExpiresAt(now, ttl),
                                    !.at = now, !.out = "raise"]]
    /\ UNCHANGED <<now, db, files, hist, ops, inv, ticks>>

\* cache_response, lines 73-91: the INSERT or the commit raises sqlite3.Error,
\* the entry goes to the fallback file
PutInsertFails(t, fsOK) ==
    /\ calls[t].pc = "insert"
    /\ files' = save_to_file_cache(calls[t].key, calls[t].val, calls[t].exp, fsOK)
    /\ calls' = [calls EXCEPT ![t] =
                   Closed([@ EXCEPT !.pc = "done", !.out = "return",
                                    !.src = IF fsOK THEN "file" ELSE "none"])]
    /\ UNCHANGED <<now, db, hist, ops, inv, ticks>>

\* get_cached_response, line 35: sqlite3.connect raises
GetConnectFails(t, q, a) ==
    /\ calls[t].pc = "idle"
    /\ calls' = [calls EXCEPT ![t] =
                   [IdleCall EXCEPT !.pc = "done", !.op = "get",
                                    !.key = generate_key(q, a), !.cls = a,
                                    !.at = now, !.out = "raise"]]
    /\ UNCHANGED <<now, db, files, hist, ops, inv, ticks>>

\* get_cached_response, lines 36-42 and 60-62: the SELECT raises
GetSelectFails(t) ==
    /\ calls[t].pc = "select"
    /\ calls' = [calls EXCEPT ![t] =
                   Closed([@ EXCEPT !.pc = "done", !.out = "raise", !.at = now])]
    /\ UNCHANGED <<now, db, files, hist, ops, inv, ticks>>

\* clear_expired_cache, lines 107-110: now is read, the connection opened
ClearBegin(t) ==
    /\ calls[t].pc = "idle"
    /\ calls' = [calls EXCEPT ![t] =
                   Opened([IdleCall EXCEPT !.pc = "delete", !.op = "clear",
                                           !.at = now])]
    /\ UNCHANGED <<now, db, files, hist, ops, inv, ticks>>

\* clear_expired_cache, line 110: sqlite3.connect raises
ClearConnectFails(t) ==
    /\ calls[t].pc = "idle"
    /\ calls' = [calls EXCEPT ![t] =
                   [IdleCall EXCEPT !.pc = "done", !.op = "clear", !.at = now,
                                    !.out = "raise"]]
    /\ UNCHANGED <<now, db, files, hist, ops, inv, ticks>>

\* clear_expired_cache, lines 111-116: DELETE, commit, and the connection is
\* closed before the files are looked at
ClearDelete(t) ==
    /\ calls[t].pc = "delete"
    /\ db' = Restrict(db, {k \in DOMAIN db : ~Expired(db[k].expires_at, calls[t].at)})
    /\ calls' = [calls EXCEPT ![t] = Closed([@ EXCEPT !.pc = "sweep"])]
    /\ UNCHANGED <<now, files, hist, ops, inv, ticks>>

\* clear_expired_cache, lines 111-116: the DELETE or the commit raises
ClearDeleteFails(t) ==
    /\ calls[t].pc = "delete"
    /\ calls' = [calls EXCEPT ![t] =
                   Closed([@ EXCEPT !.pc = "done", !.out = "raise"])]
    /\ UNCHANGED <<now, db, files, hist, ops, inv, ticks>>

\* clear_expired_cache, lines 118-131: the loop over the cache files
ClearFiles(t, before) ==
    /\ calls[t].pc = "sweep"
    /\ LET c == ClearExpired(calls[t].at, "ok", before)
       IN /\ files' = c.files
          /\ calls' = [calls EXCEPT ![t].pc = "done", ![t].out = c.out]
    /\ UNCHANGED <<now, db, hist, ops, inv, ticks>>

----------------------------------------------------------------------------
(* Token budget: count_tokens and optimize_prompt *)

\* a text: n words of the prompt, then the truncation notice if note
Text(n) == [n |-> n, note |-> FALSE]
TextWords(t) == t.n + (IF t.note THEN NoteWords ELSE 0)

\* count_tokens, approximation path, in tenths of a token
count_tokens(words) == words * TokensPerWordX10

\* int(x) of Python for the quotient a / b, b > 0: truncation towards zero
TruncDiv(a, b) == IF a >= 0 THEN a \div b ELSE -((-a) \div b)

\* len(words[:k]) for a list of n words (a negative k counts from the end)
SliceLen(n, k) ==
    IF k >= 0 THEN (IF k < n THEN k ELSE n)
    ELSE (IF n + k > 0 THEN n + k ELSE 0)

\* optimize_prompt(prompt, max_tokens) for a prompt of n words; max10 is
\* max_tokens in tenths.  The division is by count_tokens(prompt).
optimize_prompt(n, max10) ==
    LET current == count_tokens(n) IN
    IF current <= max10
    THEN [out |-> "return", text |-> Text(n)]
    ELSE IF current = 0
         THEN [out |-> "raise", text |-> Text(n)]     \* ZeroDivisionError
         ELSE LET new_length == TruncDiv(n * max10, current) - NoteRoom
              IN [out |-> "return",
                  text |-> [n |-> SliceLen(n, new_length), note |-> TRUE]]

----------------------------------------------------------------------------
(* call_openai_api *)

NoSystem == -1     \* system_prompt=None

\* words of (system_prompt or "")
SystemWords(req) == IF req.system_prompt = NoSystem THEN 0 ELSE req.system_prompt

\* cache_key = {"prompt", "system_prompt", "model", "temperature", "max_tokens"}
\* (a request that names no temperature or max_tokens has the defaults; every
\* caller uses the default model)
CacheKeyDict(req) ==
    [isdict |-> TRUE,
     items |-> << <<"prompt", "\"" \o ToString(req.prompt) \o " words\"">>,
                  <<"system_prompt",
                    IF req.system_prompt = NoSystem THEN "null"
                    ELSE "\"" \o ToString(req.system_prompt) \o " words\"">>,
                  <<"model", "\"gpt-3.5-turbo\"">>,
                  <<"temperature",
                    IF "temperature" \in DOMAIN req THEN req.temperature ELSE "0.7">>,
                  <<"max_tokens",
                    IF "max_tokens" \in DOMAIN req THEN req.max_tokens ELSE "1000">> >>]

RequestKey(req) == generate_key(CacheKeyDict(req), "openai")

\* the cache_key dict as it would be if it were built from the user message
\* that is sent, messages[-1]["content"] (a mutation of line 126 uses it)
SentKeyDict(r) ==
    [isdict |-> TRUE,
     items |-> << <<"prompt", "\"" \o ToString(r.user.n) \o " words"
                              \o (IF r.user.note THEN " [Note]" ELSE "") \o "\"">>,
                  CacheKeyDict(r.req).items[2], CacheKeyDict(r.req).items[3],
                  CacheKeyDict(r.req).items[4], CacheKeyDict(r.req).items[5] >>]

WriteKeyOfSentPrompt(r) == generate_key(SentKeyDict(r), "openai")

\* line 126: cache_manager.cache_response(cache_key, result, "openai") with
\* the cache_key of line 74, built before the user message is shaped
WriteKey(r) == RequestKey(r.req)

\* an invocation that has not started
IdleInv ==
    [pc |-> "idle", req |-> [prompt |-> 0, system_prompt |-> NoSystem],
     after |-> {}, lk |-> NoGet, wr |-> NoGet, hit |-> FALSE,
     user |-> Text(0), shaped |-> FALSE, attempt |-> 0, retry_delay |-> 0,
     remote |-> <<>>, slept |-> <<>>, writes |-> 0, trace |-> <<>>,
     out |-> "none", ret |-> PNone,
     obs |-> "none",     \* progress_callback: "none", "quiet" or "failing"
     same |-> TRUE]      \* so far every step ended as it would with no observer

\* lines 82-89: the invocation after the lookup returned g (a GetRecord)
AfterLookupIgnoreHit(r, g) ==
    IF g.out = "raise"
    THEN [r EXCEPT !.pc = "done", !.lk = g, !.out = "raise",
                   !.ret = PStr("sqlite3.OperationalError"),
                   !.trace = Append(@, "lookup")]
    ELSE [r EXCEPT !.pc = "shape", !.lk = g, !.trace = Append(@, "lookup")]

AfterLookup(r, g) ==
    IF g.out = "raise"
    THEN [r EXCEPT !.pc = "done", !.lk = g, !.out = "raise",
                   !.ret = PStr("sqlite3.OperationalError"),
                   !.trace = Append(@, "lookup")]
    ELSE IF Truthy(g.ret)
         THEN [r EXCEPT !.pc = "done", !.lk = g, !.hit = TRUE, !.out = "return",
                        !.ret = g.ret, !.trace = Append(@, "lookup")]
         ELSE [r EXCEPT !.pc = "shape", !.lk = g, !.trace = Append(@, "lookup")]

\* the user message shaped from 10 tokens below the ceiling already
AfterShapeEarly(r) ==
    LET sys == SystemWords(r.req)
        total == (IF sys > 0 THEN count_tokens(sys) ELSE 0) + count_tokens(r.req.prompt)
        o == optimize_prompt(r.req.prompt, (TokenCeiling - 10) * 10 - count_tokens(sys))
    IN IF total > (TokenCeiling - 10) * 10
       THEN IF o.out = "raise"
            THEN [r EXCEPT !.pc = "done", !.out = "raise", !.shaped = TRUE,
                           !.ret = PStr("ZeroDivisionError"),
                           !.trace = @ \o <<"count", "shape">>]
            ELSE [r EXCEPT !.pc = "call", !.user = o.text, !.shaped = TRUE,
                           !.attempt = 0, !.retry_delay = InitialRetryDelay,
                           !.trace = @ \o <<"count", "shape">>]
       ELSE [r EXCEPT !.pc = "call", !.user = Text(r.req.prompt),
                      !.attempt = 0, !.retry_delay = InitialRetryDelay,
                      !.trace = Append(@, "count")]

\* lines 91-109: build the messages, count the tokens, shape the user message
AfterShape(r) ==
    LET sys == SystemWords(r.req)
        \* the system message is sent when system_prompt is truthy
        total == (IF sys > 0 THEN count_tokens(sys) ELSE 0) + count_tokens(r.req.prompt)
        o == optimize_prompt(r.req.prompt, TokenCeiling * 10 - count_tokens(sys))
    IN IF total > TokenCeiling * 10
       THEN IF o.out = "raise"
            THEN [r EXCEPT !.pc = "done", !.out = "raise", !.shaped = TRUE,
                           !.ret = PStr("ZeroDivisionError"),
                           !.trace = @ \o <<"count", "shape">>]
            ELSE [r EXCEPT !.pc = "call", !.user = o.text, !.shaped = TRUE,
                           !.attempt = 0, !.retry_delay = InitialRetryDelay,
                           !.trace = @ \o <<"count", "shape">>]
       ELSE [r EXCEPT !.pc = "call", !.user = Text(r.req.prompt),
                      !.attempt = 0, !.retry_delay = InitialRetryDelay,
                      !.trace = Append(@, "count")]

\* lines 133-141: an exception with message e inside the try of attempt r.attempt
RetryAgainOffByOne(attempt) == attempt < max_retries

RetryAgain(attempt) == attempt < max_retries - 1

\* the terminal error built from the first failure instead of the last
AfterFailureFirstMessage(r, e) ==
    IF RetryAgain(r.attempt)
    THEN [r EXCEPT !.pc = "sleep"]
    ELSE [r EXCEPT !.pc = "done", !.out = "return",
                   !.ret = PStr("Error: " \o (IF r.remote[1].ok
                                               THEN "sqlite3.OperationalError"
                                               ELSE r.remote[1].text))]

AfterFailure(r, e) ==
    IF RetryAgain(r.attempt)
    THEN [r EXCEPT !.pc = "sleep"]
    ELSE [r EXCEPT !.pc = "done", !.out = "return", !.ret = PStr("Error: " \o e)]

\* lines 116-131: the remote call of this attempt returned text; w is the
\* PutRecord of cache_manager.cache_response(cache_key, result, "openai"),
\* which is inside the try: its exception is handled as the remote's would be
AfterSuccess(r, text, w) ==
    LET r1 == [r EXCEPT !.remote = Append(@, [ok |-> TRUE, text |-> text]),
                        !.wr = w, !.writes = @ + 1,
                        !.trace = @ \o <<"remote", "write">>]
    IN IF w.out = "raise"
       THEN AfterFailure(r1, "sqlite3.OperationalError")
       ELSE [r1 EXCEPT !.pc = "done", !.out = "return", !.ret = PStr(text)]

\* time.sleep(retry_delay); retry_delay *= 2; then the for loop over
\* range(max_retries) takes the next attempt, or ends and the function
\* returns None
AfterSleep(r) ==
    IF r.attempt + 1 < max_retries
    THEN [r EXCEPT !.pc = "call", !.attempt = @ + 1, !.retry_delay = @ * 2,
                   !.slept = Append(@, r.retry_delay),
                   !.trace = Append(@, "sleep")]
    ELSE [r EXCEPT !.pc = "done", !.out = "return", !.ret = PNone,
                   !.slept = Append(@, r.retry_delay),
                   !.trace = Append(@, "sleep")]

(* Inputs of the invocations *)

Requests ==
    { [prompt |-> 2, system_prompt |-> NoSystem],    \* fits the ceiling
      [prompt |-> 5000, system_prompt |-> 10],       \* 6513 tokens: is shaped
      [prompt |-> 0, system_prompt |-> 3080] }       \* system prompt alone: 4004 tokens
Texts == {"ok", ""}
Errors == {"timeout", "rate limit"}
Procs == {1, 2}

(* Actions: call_openai_api, one action per step between two blocking calls *)

\* call_openai_api(prompt, system_prompt) is called
Start(p, req) ==
    /\ inv[p].pc = "idle"
    /\ inv' = [inv EXCEPT ![p] = [IdleInv EXCEPT !.pc = "lookup", !.req = req,
                  !.after = {q \in Procs : inv[q].pc = "done"}]]
    /\ UNCHANGED <<now, db, files, hist, ops, ticks, calls>>

\* cache_manager.get_cached_response(cache_key, "openai")
Lookup(p, dbMode) ==
    /\ inv[p].pc = "lookup"
    /\ LET g == GetRecord(RequestKey(inv[p].req), now, dbMode)
       IN /\ inv' = [inv EXCEPT ![p] = AfterLookup(@, g)]
          /\ hist' = Push(hist, g)
    /\ UNCHANGED <<now, db, files, ops, ticks, calls>>

\* messages, token count, optimize_prompt
Shape(p) ==
    /\ inv[p].pc = "shape"
    /\ inv' = [inv EXCEPT ![p] = AfterShape(@)]
    /\ UNCHANGED <<now, db, files, hist, ops, ticks, calls>>

\* openai_client.chat.completions.create(...) raises e
CallFails(p, e) ==
    /\ inv[p].pc = "call"
    /\ inv' = [inv EXCEPT ![p] =
                 AfterFailure([@ EXCEPT !.remote = Append(@, [ok |-> FALSE, text |-> e]),
                                        !.trace = Append(@, "remote")], e)]
    /\ UNCHANGED <<now, db, files, hist, ops, ticks, calls>>

\* openai_client.chat.completions.create(...) returns text, and the result
\* is written to the cache
CallSucceeds(p, text, dbMode, fsOK) ==
    /\ inv[p].pc = "call"
    /\ dbMode = "exec_fail" \/ fsOK
    /\ LET k == WriteKey(inv[p])
           v == PStr(text)
           w == CacheWrite(k, v, "openai", DefaultExpireHours, now, dbMode, fsOK)
           rec == PutRecord(k, v, "openai", DefaultExpireHours, now, dbMode, fsOK)
       IN /\ db' = w.db
          /\ files' = w.files
          /\ hist' = Push(hist, rec)
          /\ inv' = [inv EXCEPT ![p] = AfterSuccess(@, text, rec)]
    /\ UNCHANGED <<now, ops, ticks, calls>>

\* time.sleep(retry_delay)
Sleep(p) ==
    /\ inv[p].pc = "sleep"
    /\ now' = now + inv[p].retry_delay
    /\ inv' = [inv EXCEPT ![p] = AfterSleep(@)]
    /\ UNCHANGED <<db, files, hist, ops, ticks, calls>>

----------------------------------------------------------------------------
(* geocode_location and get_location_data: the callers that ask the remote
   service for JSON.  A call is calls[t]; the call_openai_api invocation it
   makes is inv[t]. *)

\* the two callers: the class and key name of their own cache entry, the
\* words of their prompt (for a location name of one word) and of their
\* system prompt, and the parameters they pass
Wrappers ==
    { [name |-> "geocode_location", cls |-> "geocode", keyname |-> "geocode",
       prompt |-> 44, system_prompt |-> 14,
       temperature |-> "0.1", max_tokens |-> "100"],
      [name |-> "get_location_data", cls |-> "location_data", keyname |-> "location",
       prompt |-> 87, system_prompt |-> 22,
       temperature |-> "0.7", max_tokens |-> "1500"] }

WrapperHours == 720     \* expire_hours=720

WrapperOf(cls) == CHOOSE w \in Wrappers : w.cls = cls

\* cache_key = {"geocode": location_name} / {"location": location_name}
WrapperQuery(w, loc) ==
    [isdict |-> TRUE, items |-> << <<w.keyname, "\"" \o loc \o "\"">> >>]

\* the arguments of the call_openai_api call
WrapperRequest(w) ==
    [prompt |-> w.prompt, system_prompt |-> w.system_prompt,
     temperature |-> w.temperature, max_tokens |-> w.max_tokens]

\* texts the remote service can answer with: JSON, JSON in a code block,
\* prose, nothing
PlainJson == "{\"lat\": 1, \"lng\": 2}"
\* (a code fence, three backquotes, is written [fence])
FencedJson == "[fence]json {\"lat\": 1, \"lng\": 2} [fence]"
RemoteTexts == {PlainJson, FencedJson, "no idea", ""}

\* the text between the code fences if there are any, else the text, stripped
ExtractJson(result) == IF result = FencedJson THEN PlainJson ELSE result

\* json.loads(json_str): the value, or a JSONDecodeError
ParseJson(json_str) ==
    IF json_str = PlainJson
    THEN [out |-> "return", val |-> PDict(<<"lat", "1", "lng", "2">>)]
    ELSE [out |-> "raise", val |-> PNone]

\* the try block up to json.loads, for the value call_openai_api returned
\* (testing None for a code fence is a TypeError, caught like the
\* JSONDecodeError)
ParseResult(result) ==
    IF result.tag = "str" THEN ParseJson(ExtractJson(result.items[1]))
    ELSE [out |-> "raise", val |-> PNone]

\* what the caller returns and caches when the text parsed
WrapperResult(w, parsed) ==
    IF w.cls = "geocode"
    THEN PDict(<<"results", "[{geometry: {location: coordinates}}]", "status", "OK">>)
    ELSE parsed

\* what the caller returns from its except branch
WrapperError(w) ==
    IF w.cls = "geocode"
    THEN PDict(<<"error", "str(e)", "results", "[]", "status", "ERROR">>)
    ELSE PDict(<<"error", "str(e)">>)

\* the caller is called: the lookup of its own entry, and the return of a hit
WrapperBegin(t, w, loc, dbMode) ==
    /\ calls[t].pc = "idle"
    /\ LET k == generate_key(WrapperQuery(w, loc), w.cls)
           g == GetRecord(k, now, dbMode)
           c == [IdleCall EXCEPT !.op = w.name, !.key = k, !.cls = w.cls, !.at = now]
       IN /\ calls' = [calls EXCEPT ![t] =
                 IF g.out = "raise"
                 THEN [c EXCEPT !.pc = "done", !.out = "raise"]
                 ELSE IF Truthy(g.ret)
                      THEN [c EXCEPT !.pc = "done", !.out = "return", !.ret = g.ret,
                                     !.src = "cache"]
                      ELSE [c EXCEPT !.pc = "ask"]]
          /\ hist' = Push(hist, g)
    /\ UNCHANGED <<now, db, files, ops, inv, ticks>>

\* result = call_openai_api(prompt=..., system_prompt=..., ...) is called
WrapperCall(t) ==
    /\ calls[t].pc = "ask"
    /\ Start(t, WrapperRequest(WrapperOf(calls[t].cls)))

\* call_openai_api is back: the try block that parses the text and caches
\* the parsed value, or the except branch
WrapperParse(t, dbMode, fsOK) ==
    /\ calls[t].pc = "ask"
    /\ inv[t].pc = "done"
    /\ LET w == WrapperOf(calls[t].cls)
           p == ParseResult(inv[t].ret)
           v == WrapperResult(w, p.val)
           wr == CacheWrite(calls[t].key, v, w.cls, WrapperHours, now, dbMode, fsOK)
       IN IF inv[t].out = "raise"
          THEN /\ calls' = [calls EXCEPT ![t].pc = "done", ![t].out = "raise"]
               /\ UNCHANGED <<db, files, hist>>
          ELSE IF p.out = "raise"
               THEN /\ calls' = [calls EXCEPT ![t].pc = "done", ![t].out = "return",
                                              ![t].ret = WrapperError(w)]
                    /\ UNCHANGED <<db, files, hist>>
               ELSE /\ db' = wr.db
                    /\ files' = wr.files
                    /\ hist' = Push(hist, PutRecord(calls[t].key, v, w.cls,
                                                    WrapperHours, now, dbMode, fsOK))
                    /\ calls' = [calls EXCEPT ![t].pc = "done", ![t].out = "return",
                                   ![t].val = v, ![t].exp = wr.exp,
                                   ![t].ret = IF wr.out = "raise" THEN WrapperError(w)
                                              ELSE v,
                                   ![t].src = IF wr.out = "raise" THEN "none"
                                              ELSE "remote"]
    /\ UNCHANGED <<now, ops, inv, ticks>>

----------------------------------------------------------------------------
(* call_openai_api with a progress_callback.  Every call of the observer
   either returns or raises; ok is the outcome of the call made at that
   point.  With progress_callback=None no call is made. *)

\* the kinds of observer: None, one that always returns, one that may raise
Observers == {"none", "quiet", "failing"}

\* progress_callback(...) is called at this point and raises
CbRaises(r, ok) == r.obs # "none" /\ ~ok

\* an exception that leaves call_openai_api
Raised(r, what) == [r EXCEPT !.pc = "done", !.out = "raise", !.ret = PStr(what)]

\* lines 70-80: the first progress call is made before anything else
ObsAfterStart(r, ok) == IF CbRaises(r, ok) THEN Raised(r, "observer") ELSE r

\* lines 82-89: the lookup, then the progress call of the hit (line 85) or of
\* the miss (line 89), both outside any try
ObsAfterLookup(r, g, ok) ==
    LET r1 == AfterLookup(r, g)
    IN IF r1.out = "raise" THEN r1
       ELSE IF CbRaises(r, ok) THEN Raised(r1, "observer") ELSE r1

\* line 101: total_tokens > 4000
OverCeiling(r) ==
    (IF SystemWords(r.req) > 0 THEN count_tokens(SystemWords(r.req)) ELSE 0)
        + count_tokens(r.req.prompt) > TokenCeiling * 10

\* lines 98-109: the progress call of line 103 comes before optimize_prompt
ObsAfterShape(r, ok) ==
    IF OverCeiling(r) /\ CbRaises(r, ok)
    THEN Raised([r EXCEPT !.trace = Append(@, "count")], "observer")
    ELSE AfterShape(r)

\* lines 133-141 with the progress call of line 135, made inside the except
\* clause: its exception leaves the function
ObsAfterFailure(r, e, okErr) ==
    IF CbRaises(r, okErr) THEN Raised(r, "observer") ELSE AfterFailure(r, e)

\* line 113-114: the progress call of a retry is inside the try and comes
\* before the remote call: when it raises, the attempt makes no remote call
RetryCbRaises(r, okRetry) == r.attempt > 0 /\ CbRaises(r, okRetry)

\* an attempt whose remote call raises e
ObsAfterCallFails(r, e, okRetry, okErr) ==
    IF RetryCbRaises(r, okRetry)
    THEN ObsAfterFailure(r, "observer", okErr)
    ELSE ObsAfterFailure([r EXCEPT !.remote = Append(@, [ok |-> FALSE, text |-> e]),
                                   !.trace = Append(@, "remote")], e, okErr)

\* an attempt whose remote call returns text, w being the PutRecord of the
\* write-back: the progress call of line 129 is inside the try, after the
\* write-back, and its exception is handled as a failure of the attempt
ObsAfterCallSucceeds(r, text, w, okRetry, okDone, okErr) ==
    LET rw == [r EXCEPT !.remote = Append(@, [ok |-> TRUE, text |-> text]),
                        !.wr = w, !.writes = @ + 1,
                        !.trace = @ \o <<"remote", "write">>]
    IN IF RetryCbRaises(r, okRetry)
       THEN ObsAfterFailure(r, "observer", okErr)
       ELSE IF w.out = "raise"
            THEN ObsAfterFailure(rw, "sqlite3.OperationalError", okErr)
            ELSE IF CbRaises(r, okDone)
                 THEN ObsAfterFailure(rw, "observer", okErr)
                 ELSE AfterSuccess(r, text, w)

\* what a caller and the services see of an invocation
View(r) == <<r.pc, r.out, r.ret, r.trace, r.remote, r.writes, r.lk, r.wr, r.slept>>

\* the same step made with no observer
NoObs(r) == [r EXCEPT !.obs = "none"]

\* r1 is the step with the observer, r0 the same step without one
Compared(r, r1, r0) == [r1 EXCEPT !.same = r.same /\ View(r1) = View(r0)]

\* the outcomes an observer of this kind can have
CbOutcomes(obs) == IF obs = "failing" THEN BOOLEAN ELSE {TRUE}

(* Actions: call_openai_api(prompt, system_prompt, progress_callback=obs) *)

ObsStart(p, req, obs, ok) ==
    /\ inv[p].pc = "idle"
    /\ ok \in CbOutcomes(obs)
    /\ LET r == [IdleInv EXCEPT !.pc = "lookup", !.req = req, !.obs = obs,
                                !.after = {q \in Procs : inv[q].pc = "done"}]
       IN inv' = [inv EXCEPT ![p] =
                    Compared(r, ObsAfterStart(r, ok), ObsAfterStart(NoObs(r), ok))]
    /\ UNCHANGED <<now, db, files, hist, ops, ticks, calls>>

ObsLookup(p, dbMode, ok) ==
    /\ inv[p].pc = "lookup"
    /\ ok \in CbOutcomes(inv[p].obs)
    /\ LET g == GetRecord(RequestKey(inv[p].req), now, dbMode)
       IN /\ inv' = [inv EXCEPT ![p] =
                      Compared(@, ObsAfterLookup(@, g, ok),
                                  ObsAfterLookup(NoObs(@), g, ok))]
          /\ hist' = Push(hist, g)
    /\ UNCHANGED <<now, db, files, ops, ticks, calls>>

ObsShape(p, ok) ==
    /\ inv[p].pc = "shape"
    /\ ok \in CbOutcomes(inv[p].obs)
    /\ inv' = [inv EXCEPT ![p] =
                 Compared(@, ObsAfterShape(@, ok), ObsAfterShape(NoObs(@), ok))]
    /\ UNCHANGED <<now, db, files, hist, ops, ticks, calls>>

ObsCallFails(p, e, okRetry, okErr) ==
    /\ inv[p].pc = "call"
    /\ {okRetry, okErr} \subseteq CbOutcomes(inv[p].obs)
    /\ inv' = [inv EXCEPT ![p] =
                 Compared(@, ObsAfterCallFails(@, e, okRetry, okErr),
                             ObsAfterCallFails(NoObs(@), e, okRetry, okErr))]
    /\ UNCHANGED <<now, db, files, hist, ops, ticks, calls>>

ObsCallSucceeds(p, text, dbMode, fsOK, okRetry, okDone, okErr) ==
    /\ inv[p].pc = "call"
    /\ dbMode = "exec_fail" \/ fsOK
    /\ {okRetry, okDone, okErr} \subseteq CbOutcomes(inv[p].obs)
    /\ LET k == WriteKey(inv[p])
           v == PStr(text)
           w == CacheWrite(k, v, "openai", DefaultExpireHours, now, dbMode, fsOK)
           rec == PutRecord(k, v, "openai", DefaultExpireHours, now, dbMode, fsOK)
           called == ~RetryCbRaises(inv[p], okRetry)
       IN /\ db' = IF called THEN w.db ELSE db
          /\ files' = IF called THEN w.files ELSE files
          /\ hist' = IF called THEN Push(hist, rec) ELSE hist
          /\ inv' = [inv EXCEPT ![p] =
                Compared(@, ObsAfterCallSucceeds(@, text, rec, okRetry, okDone, okErr),
                            ObsAfterCallSucceeds(NoObs(@), text, rec, okRetry, okDone, okErr))]
    /\ UNCHANGED <<now, ops, ticks, calls>>

----------------------------------------------------------------------------
(* Specifications *)

Init ==
    /\ now = 0
    /\ db = <<>>
    /\ files = <<>>
    /\ hist = <<>>
    /\ ops = 0
    /\ inv = [p \in Procs |-> IdleInv]
    /\ ticks = 0
    /\ calls = [t \in Threads |-> IdleCall]

NextCache ==
    \/ \E q \in Queries, a \in ApiTypes, m \in DbModes : get_cached_response(q, a, m)
    \/ \E q \in Queries, a \in ApiTypes, v \in Payloads, ttl \in TTLs,
          m \in DbModes, f \in BOOLEAN : cache_response(q, v, a, ttl, m, f)
    \/ \E d \in TickSteps : Tick(d)

\* one caller of call_openai_api
NextInvoke ==
    \/ \E req \in Requests : Start(1, req)
    \/ \E m \in DbModes : Lookup(1, m)
    \/ Shape(1)
    \/ \E e \in Errors : CallFails(1, e)
    \/ \E t \in Texts, m \in DbModes, f \in BOOLEAN : CallSucceeds(1, t, m, f)
    \/ Sleep(1)
    \/ \E d \in TickSteps : Tick(d)

\* no invocation is between its call and its return
Quiet == \A p \in Procs : inv[p].pc \in {"idle", "done"}

\* a first call of call_openai_api and, after it returned, a second one; the
\* remote service answers every call; time passes between the calls (and in
\* the sleeps of the retry loop)
NextRepeat ==
    \/ \E req \in Requests : Start(1, req)
    \/ \E req \in Requests : inv[1].pc = "done" /\ Start(2, req)
    \/ \E p \in Procs, m \in DbModes : Lookup(p, m)
    \/ \E p \in Procs : Shape(p)
    \/ \E p \in Procs, t \in Texts, m \in DbModes, f \in BOOLEAN : CallSucceeds(p, t, m, f)
    \/ \E p \in Procs : Sleep(p)
    \/ \E d \in TickSteps : Quiet /\ Tick(d)

\* a first call of call_openai_api against a remote service that may fail
\* every attempt, and after it returned a second call; the database is
\* healthy or cannot be opened when a result is written back
NextOutage ==
    \/ \E req \in Requests : Start(1, req)
    \/ \E req \in Requests : inv[1].pc = "done" /\ Start(2, req)
    \/ \E p \in Procs : Lookup(p, "ok")
    \/ \E p \in Procs : Shape(p)
    \/ \E p \in Procs : CallFails(p, "timeout")
    \/ \E p \in Procs, m \in {"ok", "connect_fail"} : CallSucceeds(p, "ok", m, TRUE)
    \/ \E p \in Procs : Sleep(p)

\* the texts that tell the remote calls of two concurrent invocations apart
ConcurrentTexts == {"a", "b"}

\* two invocations of call_openai_api running at the same time (two threads
\* of the web server), interleaved at their blocking calls; the database is
\* healthy and the remote service may fail
NextConcurrent ==
    \/ \E p \in Procs, req \in Requests : Start(p, req)
    \/ \E p \in Procs : Lookup(p, "ok")
    \/ \E p \in Procs : Shape(p)
    \/ \E p \in Procs : CallFails(p, "timeout")
    \/ \E p \in Procs, t \in ConcurrentTexts : CallSucceeds(p, t, "ok", TRUE)
    \/ \E p \in Procs : Sleep(p)

\* a call of geocode_location or get_location_data and, after it returned, a
\* second one; the database is healthy, the remote service may fail, and
\* time passes
NextWrappers ==
    \/ \E w \in Wrappers : WrapperBegin(1, w, "paris", "ok")
    \/ \E w \in Wrappers : calls[1].pc = "done" /\ WrapperBegin(2, w, "paris", "ok")
    \/ \E t \in Procs : WrapperCall(t)
    \/ \E t \in Procs : Lookup(t, "ok")
    \/ \E t \in Procs : Shape(t)
    \/ \E t \in Procs : CallFails(t, "timeout")
    \/ \E t \in Procs, text \in RemoteTexts : CallSucceeds(t, text, "ok", TRUE)
    \/ \E t \in Procs : Sleep(t)
    \/ \E t \in Procs : WrapperParse(t, "ok", TRUE)
    \/ \E d \in TickSteps : Tick(d)

Next == NextCache \/ NextInvoke \/ NextRepeat

\* the cache manager alone, called by any caller
SpecCache == Init /\ [][NextCache]_vars

\* one invocation of call_openai_api, with the cache manager behind it
SpecInvoke == Init /\ [][NextInvoke]_vars

\* two invocations of call_openai_api, one after the other, against a remote
\* service that answers every call
SpecRepeat == Init /\ [][NextRepeat]_vars

\* two invocations of call_openai_api, one after the other, against a remote
\* service that may fail
SpecOutage == Init /\ [][NextOutage]_vars

\* two invocations of call_openai_api at the same time
SpecConcurrent == Init /\ [][NextConcurrent]_vars

\* two calls of the JSON callers, one after the other
SpecWrappers == Init /\ [][NextWrappers]_vars

\* the request whose answer is in the cache when InitObserve starts
CachedRequest == [prompt |-> 2, system_prompt |-> NoSystem]

\* the process starts with the api_cache table empty or holding the unexpired
\* answer of an earlier run (the table outlives the process)
InitObserve ==
    /\ now = 0
    /\ \/ db = <<>>
       \/ db = (RequestKey(CachedRequest) :>
                   [response_data |-> json_dumps(PStr("ok")), api_type |-> "openai",
                    expires_at |-> isoformat(DaySecs)])
    /\ files = <<>>
    /\ hist = <<>>
    /\ ops = 0
    /\ inv = [p \in Procs |-> IdleInv]
    /\ ticks = 0
    /\ calls = [t \in Threads |-> IdleCall]

\* one caller of call_openai_api that passes a progress_callback (or None)
NextObserve ==
    \/ \E req \in Requests, obs \in Observers, ok \in BOOLEAN : ObsStart(1, req, obs, ok)
    \/ \E m \in DbModes, ok \in BOOLEAN : ObsLookup(1, m, ok)
    \/ \E ok \in BOOLEAN : ObsShape(1, ok)
    \/ \E e \in Errors, okRetry \in BOOLEAN, okErr \in BOOLEAN :
          ObsCallFails(1, e, okRetry, okErr)
    \/ \E t \in Texts, m \in DbModes, f \in BOOLEAN,
          okRetry \in BOOLEAN, okDone \in BOOLEAN, okErr \in BOOLEAN :
          ObsCallSucceeds(1, t, m, f, okRetry, okDone, okErr)
    \/ Sleep(1)

SpecObserve == InitObserve /\ [][NextObserve]_vars

\* requests around the token ceiling: prompts of 0 to 5000 words with no
\* system prompt, a short one, one that leaves 9 tokens (3070 words are 3991
\* tokens) and ones that exceed the ceiling alone (3077 words are 4000.1 tokens)
BudgetRequests ==
    [prompt : {0, 1, 100, 3077, 5000},
     system_prompt : {NoSystem, 10, 3070, 3077, 3080, 5000}]

\* one caller of call_openai_api with a healthy cache and a remote service
\* that answers: the invocation up to and after the shaping of its prompt
NextBudget ==
    \/ \E req \in BudgetRequests : Start(1, req)
    \/ Lookup(1, "ok")
    \/ Shape(1)
    \/ \E t \in Texts : CallSucceeds(1, t, "ok", TRUE)

SpecBudget == Init /\ [][NextBudget]_vars

\* request mappings with nested dicts, built in different insertion orders
NestedLatLng == << <<"lat", "1">>, <<"lng", "2">> >>
NestedLngLat == << <<"lng", "2">>, <<"lat", "1">> >>
KeyQueries ==
    { \* {"location": {"lat": 1, "lng": 2}, "radius": 1500} in three orders
      [isdict |-> TRUE,
       items |-> << <<"location", "", NestedLatLng>>, <<"radius", "1500">> >>],
      [isdict |-> TRUE,
       items |-> << <<"location", "", NestedLngLat>>, <<"radius", "1500">> >>],
      [isdict |-> TRUE,
       items |-> << <<"radius", "1500">>, <<"location", "", NestedLngLat>> >>],
      \* another radius
      [isdict |-> TRUE,
       items |-> << <<"location", "", NestedLatLng>>, <<"radius", "500">> >>],
      \* {"nearby": {"location": {"lat": 1, "lng": 2}, "type": null}} in two orders
      [isdict |-> TRUE,
       items |-> << <<"nearby", "", << <<"location", "", NestedLatLng>>,
                                      <<"type", "null">> >> >> >>],
      [isdict |-> TRUE,
       items |-> << <<"nearby", "", << <<"type", "null">>,
                                      <<"location", "", NestedLngLat>> >> >> >>] }
KeyClasses == {"geocode", "places_nearby"}

\* callers that cache under several request classes, each class writing its
\* own name as the payload; the database is healthy
NextKey ==
    \/ \E q \in KeyQueries, a \in KeyClasses : get_cached_response(q, a, "ok")
    \/ \E q \in KeyQueries, a \in KeyClasses :
          cache_response(q, PStr(a), a, DefaultExpireHours, "ok", TRUE)

SpecKey == Init /\ [][NextKey]_vars

\* the cache directory of two keys
FileQueries == Queries \cup { [isdict |-> TRUE, items |-> << <<"geocode", "\"rome\"">> >>] }

\* the cache manager with its maintenance sweep, and a cache directory in
\* which files can be damaged
NextFiles ==
    \/ \E q \in FileQueries, a \in ApiTypes, m \in {"ok", "connect_fail"} :
          get_cached_response(q, a, m)
    \/ \E q \in FileQueries, a \in ApiTypes, ttl \in TTLs, m \in {"ok", "exec_fail"} :
          cache_response(q, PStr("ok"), a, ttl, m, TRUE)
    \/ \E m \in {"ok", "connect_fail"}, before \in SUBSET DOMAIN files :
          clear_expired_cache(m, before)
    \/ \E q \in FileQueries, a \in ApiTypes, kind \in CorruptKinds : Corrupt(q, a, kind)
    \/ Tick(DaySecs)

SpecFiles == Init /\ [][NextFiles]_vars

\* payloads and lifetimes that tell the concurrent writers apart
ThreadPayloads == { PStr("a"), PStr("b") }
ThreadTTLs == {1, DefaultExpireHours}

\* three threads, each making one call of the cache manager on the same key
NextThreads ==
    \/ \E t \in Threads, q \in Queries, a \in ApiTypes, v \in ThreadPayloads,
          ttl \in ThreadTTLs : PutBegin(t, q, a, v, ttl)
    \/ \E t \in Threads : PutCommit(t)
    \/ \E t \in Threads, q \in Queries, a \in ApiTypes : GetBegin(t, q, a)
    \/ \E t \in Threads : GetSelect(t)
    \/ \E t \in Threads : GetFile(t)
    \/ \E d \in TickSteps : Tick(d)

SpecThreads == Init /\ [][NextThreads]_vars

\* two threads calling the cache manager, the sweep included, with a
\* database that may fail at the connect or at a statement
ConnThreads == {1, 2}
NextConn ==
    \/ \E t \in ConnThreads, q \in Queries, a \in ApiTypes, ttl \in TTLs :
          \/ PutBegin(t, q, a, PStr("ok"), ttl)
          \/ PutConnectFails(t, q, a, PStr("ok"), ttl)
    \/ \E t \in ConnThreads : PutCommit(t)
    \/ \E t \in ConnThreads, f \in BOOLEAN : PutInsertFails(t, f)
    \/ \E t \in ConnThreads, q \in Queries, a \in ApiTypes :
          GetBegin(t, q, a) \/ GetConnectFails(t, q, a)
    \/ \E t \in ConnThreads : GetSelect(t)
    \/ \E t \in ConnThreads : GetSelectFails(t)
    \/ \E t \in ConnThreads : GetFile(t)
    \/ \E t \in ConnThreads : ClearBegin(t) \/ ClearConnectFails(t)
    \/ \E t \in ConnThreads : ClearDelete(t)
    \/ \E t \in ConnThreads : ClearDeleteFails(t)
    \/ \E t \in ConnThreads, before \in SUBSET DOMAIN files : ClearFiles(t, before)
    \/ Tick(DaySecs)

SpecConn == Init /\ [][NextConn]_vars

Spec == Init /\ [][Next]_vars

----------------------------------------------------------------------------
(* Properties of the cache manager (checked under SpecCache) *)

HasPair == Len(hist) = 2
Prev == hist[1]
Last == hist[Len(hist)]

\* a put directly followed by a get of the same key
PutThenGet ==
    /\ HasPair
    /\ Prev.op = "put"
    /\ Last.op = "get"
    /\ Last.key = Prev.key

\* C1: a lookup that meets a failing durable store (connect or SELECT raises)
\* swallows the error: get_cached_response returns, it never raises.
C1_LookupSwallowsStoreFailure ==
    \A i \in DOMAIN hist :
        (hist[i].op = "get" /\ hist[i].mode # "ok") => hist[i].out = "return"

\* C2: with the durable store failing at both calls, cache_response(k, v)
\* followed by get_cached_response(k) before the entry expires returns v
\* (up to the JSON round trip), served from the fallback file the write made.
C2_FallbackSurvivesOutage ==
    (/\ PutThenGet
     /\ Prev.mode # "ok" /\ Last.mode # "ok"
     /\ Prev.src = "file"
     /\ Last.at < IsoTime(Prev.exp))
    => /\ Last.out = "return"
       /\ Last.ret = json_loads(json_dumps(Prev.val))
       /\ Last.src = "file"

\* C8: a cache_response that meets a failing durable store (connect, INSERT
\* or commit raises) returns normally, and when the cache directory is
\* writable the entry is in the fallback file afterwards.
C8_WriteFailureNeverSurfaces ==
    \A i \in DOMAIN hist :
        (hist[i].op = "put" /\ hist[i].mode # "ok")
        => /\ hist[i].out = "return"
           /\ hist[i].fs => hist[i].src = "file"

\* the Python values json.loads can produce
JsonNative(v) == v.tag \in {"none", "str", "list", "dict"}

\* one value of each kind a caller can hand to cache_response
SampleValues ==
    { PNone, PStr(""), PStr("ok"), PList(<<"a">>), PTuple(<<"a">>),
      PDict(<<"k", "a">>), PDictIntKeys(<<"1", "a">>) }

HealthyPutThenGet ==
    /\ PutThenGet
    /\ Prev.mode = "ok" /\ Last.mode = "ok"
    /\ Prev.ttl > 0
    /\ Last.at = Prev.at

\* C9 as stated: with both stores healthy, cache_response(k, v, ttl > 0)
\* immediately followed by get_cached_response(k) returns v, for every
\* JSON-serialisable v.
C9_PutGetReturnsPayload ==
    HealthyPutThenGet => (Last.out = "return" /\ Last.ret = Prev.val)

\* C9 amended: ... returns v for every payload v made of the values JSON has
\* (None, str, list, dict with str keys); any other serialisable payload comes
\* back as its JSON round trip (a tuple as a list).
C9_PutGetReturnsJsonNative ==
    HealthyPutThenGet =>
        /\ Last.out = "return"
        /\ Last.ret = json_loads(json_dumps(Prev.val))
        /\ JsonNative(Prev.val) => Last.ret = Prev.val
        /\ \A v \in SampleValues : JsonNative(v) => json_loads(json_dumps(v)) = v

\* C9 witness: the pair happened with a JSON-native payload while the fallback
\* file of the key held an older entry.
C9_Witness ==
    /\ HealthyPutThenGet
    /\ JsonNative(Prev.val)
    /\ Last.ret = Prev.val
    /\ Last.key \in DOMAIN files
    /\ files[Last.key].response # json_dumps(Prev.val)

\* C10: a lookup returns an entry only if the clock it read is strictly
\* earlier than the entry's expires_at; and after cache_response with ttl = 0
\* a lookup of the key made after time has passed reports not-found (stated
\* here for a write and a lookup that both meet a healthy database).
C10_ExpiryBoundary ==
    /\ \A i \in DOMAIN hist :
          (hist[i].op = "get" /\ hist[i].src # "none")
          => hist[i].at < IsoTime(hist[i].exp)
    /\ (/\ PutThenGet
        /\ Prev.ttl = 0 /\ Prev.mode = "ok"
        /\ Last.at > Prev.at /\ Last.mode = "ok")
       => (Last.ret = PNone /\ Last.src = "none")

----------------------------------------------------------------------------
(* Properties of call_openai_api *)

AllFailed(r) == r.remote # <<>> /\ \A i \in DOMAIN r.remote : ~r.remote[i].ok

\* C3: call_openai_api never raises: whatever the cache stores, the prompts
\* and the remote service do, no invocation ends with an exception.
C3_NeverRaises == \A p \in Procs : inv[p].out # "raise"

\* C4: retry ceiling.  No invocation makes more than max_retries remote
\* calls, and an invocation that entered the retry loop and whose every
\* remote call failed ends after exactly max_retries calls, returning the
\* terminal error (the error string of the last failure).
C4_RetryCeiling ==
    \A p \in Procs :
        /\ Len(inv[p].remote) <= max_retries
        /\ (inv[p].pc = "done" /\ AllFailed(inv[p]))
           => /\ Len(inv[p].remote) = max_retries
              /\ inv[p].out = "return"
              /\ inv[p].ret = PStr("Error: " \o inv[p].remote[max_retries].text)

\* C4 witness: an invocation missed the cache, failed three times and returned
C4_Witness ==
    /\ inv[1].pc = "done"
    /\ inv[1].lk.out = "return" /\ ~inv[1].hit
    /\ AllFailed(inv[1])
    /\ Len(inv[1].remote) = 3
    /\ inv[1].slept = <<1, 2>>

\* C5: retry success path.  When the remote call fails twice and then
\* succeeds, the invocation is over after these 3 calls and returns the
\* text of the third.
C5_RetrySuccessPath ==
    \A p \in Procs :
        (/\ Len(inv[p].remote) >= 3
         /\ ~inv[p].remote[1].ok /\ ~inv[p].remote[2].ok /\ inv[p].remote[3].ok)
        => /\ inv[p].pc = "done"
           /\ Len(inv[p].remote) = 3
           /\ inv[p].out = "return"
           /\ inv[p].ret = PStr(inv[p].remote[3].text)

\* the first call missed, made one remote call, which succeeded, and wrote
\* the result to a healthy database
FirstCallCached ==
    /\ inv[1].pc = "done" /\ inv[1].out = "return"
    /\ inv[1].lk.mode = "ok" /\ ~inv[1].hit
    /\ Len(inv[1].remote) = 1 /\ inv[1].remote[1].ok
    /\ inv[1].wr.op = "put" /\ inv[1].wr.mode = "ok"

\* the second call was made after the first returned, has the same
\* arguments, and looked the cache up, in a
\* healthy database, before the entry of the first expired
SecondCallLookedUp ==
    /\ 1 \in inv[2].after
    /\ inv[2].req = inv[1].req
    /\ inv[2].lk.op = "get" /\ inv[2].lk.mode = "ok"
    /\ inv[2].lk.at < IsoTime(inv[1].wr.exp)

\* C6: after a first call that made one remote call and cached its result, a
\* second call with the same arguments before the entry expires returns that
\* text with no remote call and no shaping, whatever the text (the empty
\* string included).
C6_SecondCallServedFromCache ==
    (FirstCallCached /\ SecondCallLookedUp)
    => /\ inv[2].pc = "done" /\ inv[2].out = "return"
       /\ inv[2].ret = inv[1].ret
       /\ inv[2].remote = <<>>
       /\ ~inv[2].shaped

\* the lookup of invocation r returned a value the code takes as a hit
\* (if cached_response:)
LookupHit(r) == r.lk.op = "get" /\ r.lk.out = "return" /\ Truthy(r.lk.ret)

C11_WriteUnderOriginalKey ==
    \A p \in Procs :
        inv[p].wr.op = "put"
        => /\ inv[p].wr.key = generate_key(CacheKeyDict(inv[p].req), "openai")
           /\ inv[p].user # Text(inv[p].req.prompt)
              => inv[p].wr.key # WriteKeyOfSentPrompt(inv[p])
           /\ inv[p].wr.ttl = DefaultExpireHours
           /\ inv[p].wr.src = "db"
              => /\ inv[p].wr.key \in DOMAIN db
                 /\ db[inv[p].wr.key].api_type = "openai"
                 /\ db[inv[p].wr.key].response_data = json_dumps(inv[p].wr.val)
                 /\ WriteKeyOfSentPrompt(inv[p]) \in DOMAIN db
                    => inv[p].user = Text(inv[p].req.prompt)

\* C11 witness: a shaped (truncated) request succeeded and its result is in
\* the database under the key of the unshaped request
C11_Witness ==
    /\ inv[1].pc = "done" /\ inv[1].shaped /\ inv[1].user.note
    /\ inv[1].user.n < inv[1].req.prompt
    /\ inv[1].wr.op = "put" /\ inv[1].wr.src = "db"
    /\ RequestKey(inv[1].req) \in DOMAIN db
    /\ WriteKeyOfSentPrompt(inv[1]) \notin DOMAIN db

\* the part of C12 that is about an observer that never raises
QuietObserverChangesNothing ==
    \A p \in Procs : inv[p].obs = "quiet" => inv[p].same

\* C12: progress reporting is a side channel: with any progress observer, one
\* that raises included, every step of an invocation ends as the same step
\* does with no observer (same cache operations, same remote calls, same
\* return value).
C12_ObserverIsSideChannel == \A p \in Procs : inv[p].same

\* the invocation r has shaped its prompt and has a user message to send
ShapedMessage(r) == r.shaped /\ r.out # "raise" /\ r.pc \in {"call", "sleep", "done"}

\* C13: shaping never exceeds the budget: the shaped user message and the
\* system prompt together are estimated at no more than the 4000-token
\* ceiling, also when the system prompt takes almost all of it or more.
C13_ShapedWithinCeiling ==
    \A p \in Procs :
        ShapedMessage(inv[p])
        => count_tokens(TextWords(inv[p].user))
             + count_tokens(SystemWords(inv[p].req)) <= TokenCeiling * 10

\* C14: shaping an empty user prompt never raises and leaves the prompt
\* empty, whatever the budget (the negative budget of a system prompt that
\* exceeds the ceiling alone included).
C14_EmptyPromptUnchanged ==
    \A p \in Procs :
        (inv[p].req.prompt = 0 /\ inv[p].pc \in {"call", "sleep", "done"}
         /\ "count" \in Range(inv[p].trace))
        => /\ inv[p].out # "raise"
           /\ inv[p].user = Text(0)

----------------------------------------------------------------------------
(* Properties of the fingerprint (checked under SpecKey) *)

\* two dicts are structurally equal: the same keys with structurally equal
\* values, whatever the insertion order
RECURSIVE DictEq(_, _)
DictEq(xs, ys) ==
    /\ {xs[i][1] : i \in DOMAIN xs} = {ys[j][1] : j \in DOMAIN ys}
    /\ \A i \in DOMAIN xs, j \in DOMAIN ys :
          xs[i][1] = ys[j][1]
          => /\ Len(xs[i]) = Len(ys[j])
             /\ IF Len(xs[i]) = 3 THEN DictEq(xs[i][3], ys[j][3])
                ELSE xs[i][2] = ys[j][2]

StructEq(q1, q2) ==
    /\ q1.isdict = q2.isdict
    /\ IF q1.isdict THEN DictEq(q1.items, q2.items) ELSE q1 = q2

\* a cache_response directly followed by a get_cached_response
PutGetPair == HasPair /\ Prev.op = "put" /\ Last.op = "get"

\* C15: fingerprint determinism: with the same request class, two request
\* mappings that are structurally equal get the same key, whatever the
\* insertion order of their keys at any depth; so what was cached with one is
\* found with the other.
C15_KeyIgnoresInsertionOrder ==
    /\ \A i, j \in DOMAIN hist :
          (hist[i].cls = hist[j].cls /\ StructEq(hist[i].q, hist[j].q))
          => hist[i].key = hist[j].key
    /\ (PutGetPair /\ Prev.cls = Last.cls /\ StructEq(Prev.q, Last.q))
       => Last.ret = Prev.val

\* C15 witness: an entry cached with one mapping was found with a mapping
\* whose top-level order is the same and whose dict two levels down was
\* built in the other order
C15_Witness ==
    /\ PutGetPair
    /\ Prev.cls = Last.cls
    /\ Prev.q # Last.q /\ StructEq(Prev.q, Last.q)
    /\ Prev.q.items[1][1] = "nearby" /\ Last.q.items[1][1] = "nearby"
    /\ Last.ret = Prev.val /\ Last.src = "db"

\* C16: fingerprint separation: the same payload under two different
\* request classes gets two different keys, so a lookup under one class never
\* returns an entry that was cached under another.
C16_ClassesNeverCollide ==
    /\ \A i, j \in DOMAIN hist :
          (StructEq(hist[i].q, hist[j].q) /\ hist[i].cls # hist[j].cls)
          => hist[i].key # hist[j].key
    /\ \A i \in DOMAIN hist :
          (hist[i].op = "get" /\ hist[i].ret # PNone)
          => hist[i].ret = PStr(hist[i].cls)

\* C16 witness: a payload was cached under one class, and the lookup of the
\* same payload under the other class reported not-found
C16_Witness ==
    /\ PutGetPair
    /\ StructEq(Prev.q, Last.q) /\ Prev.cls # Last.cls
    /\ Prev.key \in DOMAIN db
    /\ Last.ret = PNone /\ Last.src = "none"

----------------------------------------------------------------------------
(* Properties of the fallback files (checked under SpecFiles and SpecCache) *)

\* the newest call is a lookup that met a healthy database; the stores are
\* still as that lookup found them (every call that changes them is logged)
LastIsLookup == hist # <<>> /\ Last.op = "get" /\ Last.mode = "ok"

\* at the time of the newest call the store holds an entry of key k that has
\* not expired
DbLive(k) == k \in DOMAIN db /\ Last.at < IsoTime(db[k].expires_at)
FileLive(k) ==
    /\ k \in DOMAIN files
    /\ files[k].kind = "entry"
    /\ Last.at < IsoTime(files[k].expires_at)

\* C18: a lookup that misses the durable store (no unexpired row, no error)
\* returns the payload of the well-formed unexpired fallback file of the key,
\* and it reports not-found only when neither store has an unexpired entry.
C18_FallbackReadAfterMiss ==
    LastIsLookup
    => /\ Last.out = "return"
       /\ (~DbLive(Last.key) /\ FileLive(Last.key))
          => /\ Last.ret = json_loads(files[Last.key].response)
             /\ Last.src = "file"
       /\ Last.src = "none" <=> (~DbLive(Last.key) /\ ~FileLive(Last.key))

\* C18 witness: the row of the key had expired and the lookup was served from
\* the fallback file
C18_Witness ==
    /\ LastIsLookup
    /\ Last.key \in DOMAIN db /\ ~DbLive(Last.key)
    /\ FileLive(Last.key)
    /\ Last.src = "file" /\ Last.ret = PStr("ok")

\* C19: a cache_response whose durable upsert succeeds leaves the fallback
\* files as they are: no file is added, removed or rewritten.
C19_DurableWriteLeavesFiles ==
    [][(/\ ops' = ops + 1
        /\ hist'[Len(hist')].op = "put"
        /\ hist'[Len(hist')].mode = "ok")
       => (hist'[Len(hist')].out = "return" /\ files' = files)]_vars

\* C19 witness: a write went to the database while the fallback file of the
\* same key holds another payload, left from an earlier write
C19_Witness ==
    /\ hist # <<>>
    /\ Last.op = "put" /\ Last.mode = "ok" /\ Last.src = "db"
    /\ Last.key \in DOMAIN files
    /\ files[Last.key].response # json_dumps(Last.val)
    /\ db[Last.key].response_data = json_dumps(Last.val)

\* C20: a corrupt fallback file (not JSON, JSON that is not an object, an
\* object without expires_at) is absent for get_cached_response and is
\* removed by clear_expired_cache, and neither of the two raises when the
\* database is healthy.
C20_CorruptFilesHarmless ==
    /\ \A i \in DOMAIN hist :
          (hist[i].op \in {"get", "clear"} /\ hist[i].mode = "ok")
          => hist[i].out = "return"
    /\ (/\ LastIsLookup
        /\ Last.key \in DOMAIN files
        /\ files[Last.key].kind \in CorruptKinds
        /\ ~DbLive(Last.key))
       => (Last.ret = PNone /\ Last.src = "none")
    /\ (hist # <<>> /\ Last.op = "clear" /\ Last.mode = "ok")
       => \A k \in DOMAIN files : files[k].kind \notin CorruptKinds

----------------------------------------------------------------------------
(* Properties of concurrent cache-manager calls (checked under SpecThreads) *)

\* thread u has committed a write of key k
Committed(u, k) ==
    calls[u].op = "put" /\ calls[u].pc = "done" /\ calls[u].key = k

\* C17: under any interleaving of concurrent cache_response and
\* get_cached_response calls on one key, the table holds at most one row of
\* the key, whose payload and expires_at are those of one committed write
\* (never the payload of one writer with the expires_at of another), and a
\* lookup ends with not-found or with the whole payload of one of the writes.
C17_UpsertAtomicPerKey ==
    /\ Cardinality(DOMAIN db)
          <= Cardinality({calls[u].key : u \in {x \in Threads : calls[x].op = "put"}})
    /\ \A k \in DOMAIN db :
          \E u \in Threads :
              /\ Committed(u, k)
              /\ db[k].response_data = json_dumps(calls[u].val)
              /\ db[k].expires_at = calls[u].exp
    /\ \A t \in Threads :
          (calls[t].op = "get" /\ calls[t].pc = "done")
          => /\ calls[t].out = "return"
             /\ \/ calls[t].ret = PNone
                \/ \E u \in Threads :
                      /\ Committed(u, calls[t].key)
                      /\ calls[t].ret = json_loads(json_dumps(calls[u].val))
                      /\ calls[t].exp = calls[u].exp

\* C17 witness: two writers of the key overlapped, the one that started
\* first committed last, and a lookup made between the two commits returned
\* the payload that the row no longer holds
C17_Witness ==
    \E u, w, t \in Threads :
        /\ Committed(u, calls[u].key) /\ Committed(w, calls[u].key)
        /\ calls[u].val # calls[w].val
        /\ calls[u].at < calls[w].at
        /\ IsoTime(calls[u].exp) > IsoTime(calls[w].exp)
        /\ db[calls[u].key].response_data = json_dumps(calls[u].val)
        /\ db[calls[u].key].expires_at = calls[u].exp
        /\ calls[t].op = "get" /\ calls[t].pc = "done"
        /\ calls[t].ret = calls[w].val

----------------------------------------------------------------------------
(* The sweep and the lookups (checked under SpecFiles) *)

\* the keys of the cache directory and the instants from now on
FileKeys == {generate_key(q, a) : q \in FileQueries, a \in ApiTypes}
Later == {now, now + 1, now + DaySecs, now + 2 * DaySecs}

\* the step is a call of clear_expired_cache
SweepStep == ops' = ops + 1 /\ hist'[Len(hist')].op = "clear"

\* C21: the sweep is not needed for correctness: clear_expired_cache removes
\* only what a lookup at the same instant already reports as absent, so for
\* every key and every instant from then on the lookup finds in each store,
\* and returns, the same with the sweep as without it.
C21_SweepChangesNoLookup ==
    [][SweepStep
       => \A k \in FileKeys, t \in Later :
              /\ DbSelect(k, t)' = DbSelect(k, t)
              /\ FileLookup(k, t)' = FileLookup(k, t)
              /\ GetCached(k, t, "ok")' = GetCached(k, t, "ok")]_vars

\* C21 witness: a sweep ran to its end and removed the entry, by then
\* expired, that the call before it had written
C21_Witness ==
    /\ HasPair
    /\ Prev.op = "put" /\ Prev.src \in {"db", "file"}
    /\ Last.op = "clear" /\ Last.mode = "ok" /\ Last.out = "return"
    /\ Last.at > IsoTime(Prev.exp)
    /\ Prev.key \notin DOMAIN db /\ Prev.key \notin DOMAIN files

----------------------------------------------------------------------------
(* Properties of the retry loop (checked under SpecInvoke) *)

\* the delays slept so far are 1 s, 2 s, ...: no sleep after the last
\* attempt, one sleep between two attempts
DelaysDouble(r) ==
    /\ Len(r.slept) <= max_retries - 1
    /\ \A k \in DOMAIN r.slept :
          /\ r.slept[k] = InitialRetryDelay * 2 ^ (k - 1)
          /\ k > 1 => r.slept[k] >= r.slept[k - 1]
    /\ r.pc = "call" => Len(r.slept) = r.attempt /\ Len(r.remote) = r.attempt
    /\ (r.pc = "done" /\ r.trace # <<>>) => r.trace[Len(r.trace)] # "sleep"

\* no sleep follows a remote call that returned
NoSleepAfterSuccess(r) ==
    \A i \in DOMAIN r.remote :
        r.remote[i].ok => (r.pc # "sleep" /\ Len(r.slept) < i)

\* the part of C22 that is about the delays themselves
BackoffDelays == \A p \in Procs : DelaysDouble(inv[p])

\* C22: backoff: the delay after the k-th failed attempt is 1 s * 2^(k-1),
\* delays never decrease, there is a sleep between every two consecutive
\* attempts, none after the final failed attempt and none after a success.
C22_Backoff ==
    \A p \in Procs : DelaysDouble(inv[p]) /\ NoSleepAfterSuccess(inv[p])

\* attempt i of r failed: the remote call raised, or it returned and the
\* write-back that followed raised
AttemptFailed(r, i) ==
    \/ ~r.remote[i].ok
    \/ i < Len(r.remote)
    \/ r.wr.out = "raise"

\* the message of the exception that ended attempt i
FailureMessage(r, i) ==
    IF r.remote[i].ok THEN "sqlite3.OperationalError" ELSE r.remote[i].text

\* C23: when every attempt failed, the returned error carries the message
\* of the failure of the final attempt; an invocation that ended before the
\* final attempt returns the text of its last remote call, never a failure.
C23_LastFailureReturned ==
    \A p \in Procs :
        LET r == inv[p]
            n == Len(r.remote)
        IN (r.pc = "done" /\ n > 0)
           => /\ r.out = "return"
              /\ (\A i \in 1..n : AttemptFailed(r, i))
                 => /\ n = max_retries
                    /\ r.ret = PStr("Error: " \o FailureMessage(r, n))
              /\ n < max_retries
                 => /\ r.remote[n].ok /\ r.wr.out # "raise"
                    /\ r.ret = PStr(r.remote[n].text)

\* C23 witness: three failed attempts whose first and last messages differ
C23_Witness ==
    /\ inv[1].pc = "done"
    /\ Len(inv[1].remote) = max_retries
    /\ \A i \in 1..max_retries : AttemptFailed(inv[1], i)
    /\ FailureMessage(inv[1], 1) # FailureMessage(inv[1], max_retries)
    /\ inv[1].ret = PStr("Error: " \o FailureMessage(inv[1], max_retries))

----------------------------------------------------------------------------
(* Properties of the prompt shaping (checked under SpecBudget) *)

\* the estimate of system prompt plus user prompt is within the ceiling
WithinCeiling(req) ==
    count_tokens(SystemWords(req)) + count_tokens(req.prompt) <= TokenCeiling * 10

\* C24: if the estimated tokens of the system prompt plus the user prompt
\* are at most the 4000-token ceiling, the user message sent to the remote
\* call is the original prompt: not truncated, no truncation notice.
C24_WithinCeilingUntouched ==
    \A p \in Procs :
        (/\ "count" \in Range(inv[p].trace)
         /\ WithinCeiling(inv[p].req))
        => /\ inv[p].out # "raise"
           /\ inv[p].user = Text(inv[p].req.prompt)
           /\ inv[p].user.n = inv[p].req.prompt /\ ~inv[p].user.note
           /\ "shape" \notin Range(inv[p].trace)

\* C24 witness: a one-word prompt with a system prompt that leaves 7.7
\* tokens below the ceiling was sent to the remote call
C24_Witness ==
    /\ inv[1].req = [prompt |-> 1, system_prompt |-> 3070]
    /\ WithinCeiling(inv[1].req)
    /\ inv[1].pc = "done" /\ Len(inv[1].remote) = 1
    /\ inv[1].user = Text(1)

\* C25: within one invocation, once a remote call has returned no further
\* remote call is made and no retry is scheduled, also when the write-back
\* that follows fails.
C25_NoCallAfterSuccess ==
    \A p \in Procs :
        \A i \in DOMAIN inv[p].remote :
            inv[p].remote[i].ok
            => /\ i = Len(inv[p].remote)
               /\ inv[p].pc = "done"

----------------------------------------------------------------------------
(* Staleness of the fallback files (checked under SpecCache) *)

\* C26: a lookup never returns a payload older than the most recent
\* cache_response of its key: when that write went to the durable store, a
\* lookup that follows is not answered from a fallback file, which can only
\* be older.
C26_NoStaleFallback ==
    (/\ PutThenGet
     /\ Prev.out = "return" /\ Prev.src = "db"
     /\ Last.out = "return")
    => /\ Last.src # "file"
       /\ Last.ret \in {PNone, json_loads(json_dumps(Prev.val))}

----------------------------------------------------------------------------
(* Terminal failures and the cache (checked under SpecOutage) *)

\* the invocation r ended in the terminal failure of the retry loop
TerminalFailure(r) ==
    /\ r.pc = "done" /\ r.out = "return"
    /\ Len(r.remote) = max_retries
    /\ \A i \in 1..max_retries : AttemptFailed(r, i)
    /\ r.ret = PStr("Error: " \o FailureMessage(r, max_retries))

\* a step that changes a store is the write-back of the text of a remote
\* call, under the request's key, and ends its invocation with that text
StoreChangeIsResult ==
    (db' # db \/ files' # files)
    => \E p \in Procs :
          /\ inv'[p] # inv[p]
          /\ inv'[p].pc = "done" /\ inv'[p].out = "return"
          /\ ~TerminalFailure(inv'[p])
          /\ inv'[p].ret = PStr(inv'[p].remote[Len(inv'[p].remote)].text)
          /\ db' = DbUpsert(RequestKey(inv[p].req), json_dumps(inv'[p].ret), "openai",
                            ExpiresAt(now, DefaultExpireHours))
          /\ files' = files

\* after a first call that ended in terminal failure, a second call with
\* the same arguments misses the cache and goes on to the remote call
MissAfterFailure ==
    (/\ TerminalFailure(inv[1])
     /\ 1 \in inv[2].after /\ inv[2].req = inv[1].req
     /\ inv[2].lk.op = "get")
    => /\ ~inv[2].hit /\ inv[2].lk.ret = PNone /\ inv[2].lk.src = "none"
       /\ inv[2].pc \in {"shape", "call", "sleep"}
          \/ (inv[2].pc = "done" /\ (inv[2].remote # <<>> \/ inv[2].out = "raise"))

\* C27: an invocation that ends in terminal failure leaves both stores as
\* they were (the only steps that change a store end their invocation with
\* the text of a remote call, never with an error string), so a later
\* identical request misses the cache and calls the remote again.
C27_FailureLeavesCacheUnchanged ==
    [][StoreChangeIsResult /\ MissAfterFailure']_vars

\* C27 witness: the first call failed three times, the second, identical,
\* missed the cache and made a remote call
C27_Witness ==
    /\ TerminalFailure(inv[1]) /\ AllFailed(inv[1])
    /\ 1 \in inv[2].after /\ inv[2].req = inv[1].req
    /\ ~inv[2].hit
    /\ inv[2].remote # <<>>
    /\ db = <<>> /\ files = <<>>

----------------------------------------------------------------------------
(* Connections of the cache manager (checked under SpecConn) *)

\* the call c is inside the try block of its operation
InTry(c) == c.pc \in {"insert", "select", "file", "delete"}

\* C28: every connection opened by get_cached_response, cache_response or
\* clear_expired_cache is closed before the operation returns or raises, on
\* every path; a call holds one connection while it is inside its try block
\* and none otherwise, so when no call is running none is open.
C28_ConnectionsClosed ==
    \A t \in Threads :
        /\ calls[t].conn = IF InTry(calls[t]) THEN 1 ELSE 0
        /\ calls[t].pc = "done" => calls[t].conn = 0

\* C28 witness: a lookup whose SELECT raised and a write that fell back to
\* the file have both ended
C28_Witness ==
    /\ calls[1].pc = "done" /\ calls[1].op = "get" /\ calls[1].out = "raise"
    /\ calls[1].key # ""
    /\ calls[2].pc = "done" /\ calls[2].op = "put" /\ calls[2].src = "file"
    /\ calls[1].conn = 0 /\ calls[2].conn = 0

----------------------------------------------------------------------------
(* Concurrent invocations (checked under SpecConcurrent) *)

\* both invocations have the same request and both looked the cache up
\* before either had written its result back: both lookups missed
BothMissed ==
    /\ inv[1].req = inv[2].req
    /\ \A p \in Procs : inv[p].lk.op = "get" /\ inv[p].lk.out = "return" /\ ~inv[p].hit
    /\ \A p \in Procs : inv[p].lk.ret = PNone

\* the invocation r ended with the text of a remote call
Succeeded(r) ==
    /\ r.pc = "done" /\ r.out = "return"
    /\ r.remote # <<>> /\ r.remote[Len(r.remote)].ok

\* C29: concurrent invocations are not coalesced: of two invocations with
\* the same request that both looked up before either wrote back, each makes
\* its own remote calls (at least one, at most max_retries), and when both
\* have succeeded the cache holds one entry of the fingerprint, in the
\* database, whose payload is the result of one of the two (the one written
\* back last).
C29_NotCoalesced ==
    BothMissed
    => /\ \A p \in Procs :
             /\ Len(inv[p].remote) <= max_retries
             /\ (inv[p].pc = "done" /\ inv[p].out = "return")
                => /\ Len(inv[p].remote) >= 1
                   /\ inv[p].writes = Cardinality({i \in DOMAIN inv[p].remote :
                                                       inv[p].remote[i].ok})
       /\ (\A p \in Procs : Succeeded(inv[p]))
          => LET k == RequestKey(inv[1].req)
             IN /\ DOMAIN db = {k} /\ files = <<>>
                /\ db[k].response_data \in {json_dumps(inv[p].ret) : p \in Procs}
                /\ Last.op = "put" /\ Last.key = k
                /\ db[k].response_data = json_dumps(Last.val)
                /\ db[k].expires_at = Last.exp

\* C29 witness: both missed, both succeeded with different texts, the second
\* after a failed attempt, and the cache holds the text written last
C29_Witness ==
    /\ BothMissed
    /\ \A p \in Procs : Succeeded(inv[p])
    /\ inv[1].ret = PStr("a") /\ inv[2].ret = PStr("b")
    /\ Len(inv[1].remote) = 1 /\ Len(inv[2].remote) = 2
    /\ db[RequestKey(inv[1].req)].response_data = json_dumps(PStr("a"))

----------------------------------------------------------------------------
(* Unparseable answers (checked under SpecWrappers) *)

\* the first call got a text from the remote service that does not parse as
\* JSON, and has returned
FirstUnparsed ==
    /\ calls[1].pc = "done" /\ calls[1].src # "cache"
    /\ Succeeded(inv[1])
    /\ ParseResult(inv[1].ret).out = "raise"

\* the second call has the arguments of the first, was made after the first
\* returned and reached the lookup of call_openai_api before the "openai"
\* entry of the first expired
SecondWithinDay ==
    /\ calls[2].pc = "done" /\ calls[2].key = calls[1].key
    /\ inv[2].lk.op = "get"
    /\ inv[2].lk.at < IsoTime(inv[1].wr.exp)

\* the consequences C30 names, for the first and for the second call
ErrorAndTextCached ==
    /\ calls[1].out = "return"
    /\ calls[1].ret = WrapperError(WrapperOf(calls[1].cls))
    /\ inv[2].writes = 0
       => /\ calls[1].key \notin DOMAIN db /\ calls[1].key \notin DOMAIN files
          /\ RequestKey(inv[1].req) \in DOMAIN db
          /\ db[RequestKey(inv[1].req)] =
                [response_data |-> json_dumps(inv[1].ret), api_type |-> "openai",
                 expires_at |-> isoformat(inv[1].wr.at + DefaultExpireHours * HourSecs)]

ErrorAgainWithoutRemote ==
    SecondWithinDay
    => /\ calls[2].out = "return"
       /\ calls[2].ret = WrapperError(WrapperOf(calls[2].cls))
       /\ inv[2].hit /\ inv[2].remote = <<>>

\* the part of C30 that holds: a text that is not empty
NonEmptyUnparsedServedAgain ==
    (FirstUnparsed /\ Truthy(inv[1].ret)) => (ErrorAndTextCached /\ ErrorAgainWithoutRemote)

\* C30: when the remote returns text that does not parse as JSON, the caller
\* returns its error result and writes no entry of its own class, the text
\* stays cached under class "openai" for 24 hours, and an identical call
\* within that time returns the error again with zero remote calls.
C30_UnparsedTextServedAgain ==
    FirstUnparsed => (ErrorAndTextCached /\ ErrorAgainWithoutRemote)

====
